---- MODULE Spec2Model ----
(***************************************************************************)
(* Model of the LinkedIn ingest service: backend/app/api/linkedin.py       *)
(* (LinkedInAgent, CacheEntry) as called from backend/app/main.py.         *)
(*                                                                         *)
(* Python values are represented as follows.                               *)
(*   dict          a record; a key is present iff it is in DOMAIN          *)
(*   list          a sequence                                              *)
(*   str           a string (concatenation \o, slicing SubSeq)             *)
(*   None          the record None; an optional list or optional string    *)
(*                 is None or Some(value)                                  *)
(*   datetime      an integer number of minutes                            *)
(***************************************************************************)
EXTENDS Integers, Sequences, FiniteSets, TLC

\* ------------------------------------------------------------------------
\* Bounds of the model
\* ------------------------------------------------------------------------
MaxReqs == 3
MaxIds  == 2
MaxTime == 2
MaxTtl  == 1
MaxDelay == 7

Reqs == 1..MaxReqs
Ids  == 1..MaxIds

\* ------------------------------------------------------------------------
\* Python values
\* ------------------------------------------------------------------------
None == [None |-> TRUE]

Some(v) == [val |-> v]

Has(d, k) == k \in DOMAIN d

\* truthiness of d.get(k, False) for a string-valued key
TruthyStr(d, k) == Has(d, k) /\ d[k] # ""

\* truthiness of d.get(k, False) for a list-valued key
TruthyList(d, k) == Has(d, k) /\ d[k] # <<>>

\* truthiness of d.get(k, False) for a dict-valued key
TruthyDict(d, k) == Has(d, k) /\ DOMAIN d[k] # {}

\* truthiness of an optional string
TruthyOpt(o) == o # None /\ o.val # ""

\* str(o) of an optional string inside an f-string
StrOpt(o) == IF o = None THEN "None" ELSE o.val

\* s[:-n]
DropLast(s, n) == SubSeq(s, 1, Len(s) - n)

\* ------------------------------------------------------------------------
\* Profile sections of _get_ingest (linkedin.py 243-422).  The profiles the
\* model feeds it carry only the keys read below, so that the remaining
\* facets (experience, education, projects, honors, certifications,
\* publications, volunteer) are the empty string, as in the code when the
\* key is absent.
\* ------------------------------------------------------------------------
RECURSIVE JoinSkills(_)
JoinSkills(skills) ==
  IF skills = <<>> THEN ""
  ELSE IF Len(skills) = 1 THEN skills[1].name
  ELSE skills[1].name \o ", " \o JoinSkills(Tail(skills))

RECURSIVE LanguagesText(_)
LanguagesText(langs) ==
  IF langs = <<>> THEN ""
  ELSE langs[1].name
       \o (IF TruthyStr(langs[1], "proficiency")
           THEN " (" \o langs[1].proficiency \o ")" ELSE "")
       \o ", " \o LanguagesText(Tail(langs))

\* the try block 243-419 raises (KeyError) on these profiles
ProfileRaises(p) ==
  \/ ~Has(p, "firstName")
  \/ ~Has(p, "lastName")
  \/ TruthyList(p, "skills") /\ \E i \in 1..Len(p.skills) : ~Has(p.skills[i], "name")
  \/ TruthyList(p, "languages") /\ \E i \in 1..Len(p.languages) : ~Has(p.languages[i], "name")

\* str(e) of the KeyError the try block 243-419 raises first: the name parts
\* are read at 244 and 247, a skill's name at 353, a language's at 361
KeyErrorStr(p) ==
  IF ~Has(p, "firstName") THEN "'firstName'"
  ELSE IF ~Has(p, "lastName") THEN "'lastName'"
  ELSE "'name'"

\* str(e) of the ParseException of line 422
ParseExceptionStr(p) == "Error while processing LinkedIn profile: " \o KeyErrorStr(p)

full_name(p) ==
  p.firstName \o " "
  \o (IF TruthyStr(p, "middleName") THEN p.middleName \o " " ELSE "")
  \o p.lastName

summary(p) ==
  DropLast(
    "PROFILE OF: " \o full_name(p) \o "\n"
    \o (IF Has(p, "headline") /\ p.headline # "--"
        THEN "HEADLINE: " \o p.headline \o "\n" ELSE "")
    \o "LOCATION: "
    \o (IF TruthyStr(p, "geoLocationName") THEN p.geoLocationName \o ", " ELSE "")
    \o (IF Has(p, "geoCountryName") THEN p.geoCountryName ELSE "")
    \o "\n"
    \o (IF TruthyStr(p, "summary")
        THEN "\n# ABOUT\n\"\"\"\n" \o p.summary \o "\n\"\"\"\n" ELSE ""),
    1)

skills(p) ==
  IF TruthyList(p, "skills") THEN "# SKILLS\n" \o JoinSkills(p.skills) ELSE ""

languages(p) ==
  IF TruthyList(p, "languages")
  THEN DropLast("# LANGUAGES\n" \o LanguagesText(p.languages), 2)
  ELSE ""

\* ------------------------------------------------------------------------
\* Posts section of _get_ingest (linkedin.py 424-500)
\* ------------------------------------------------------------------------

\* attribution read from actor["image"]["attributes"][0]; raises when the
\* path is missing, the list is empty or a person lacks a name part
AttributionRaises(actor) ==
  \/ ~Has(actor, "image")
  \/ ~Has(actor.image, "attributes")
  \/ actor.image.attributes = <<>>
  \/ LET a == actor.image.attributes[1]
     IN  TruthyDict(a, "miniProfile")
         /\ (~Has(a.miniProfile, "firstName") \/ ~Has(a.miniProfile, "lastName"))

Attribution(actor) ==
  LET a == actor.image.attributes[1]
  IN  IF TruthyDict(a, "miniProfile")
      THEN [orig_author_name |-> Some(a.miniProfile.firstName \o " " \o a.miniProfile.lastName),
            orig_author_headline |-> IF Has(a.miniProfile, "occupation")
                                     THEN Some(a.miniProfile.occupation) ELSE None,
            orig_company_name |-> None]
      ELSE IF TruthyDict(a, "miniCompany")
      THEN [orig_author_name |-> None,
            orig_author_headline |-> None,
            orig_company_name |-> IF Has(a.miniCompany, "name")
                                  THEN Some(a.miniCompany.name) ELSE None]
      ELSE [orig_author_name |-> None, orig_author_headline |-> None,
            orig_company_name |-> None]

\* x["commentary"]["text"]["text"], None on KeyError
CommentaryText(x) ==
  IF Has(x, "commentary") /\ Has(x.commentary, "text") /\ Has(x.commentary.text, "text")
  THEN Some(x.commentary.text.text)
  ELSE None

NoAttribution ==
  [orig_author_name |-> None, orig_author_headline |-> None, orig_company_name |-> None]

\* lines 437-462: the classification of one activity record raises
ClassifyRaises(post, p) ==
  \/ ~Has(post, "actor")
  \/ ~Has(post.actor, "urn")
  \/ ~Has(p, "member_urn")
  \/ post.actor.urn # p.member_urn /\ AttributionRaises(post.actor)
  \/ /\ post.actor.urn = p.member_urn
     /\ TruthyDict(post, "resharedUpdate")
     /\ (~Has(post.resharedUpdate, "actor") \/ AttributionRaises(post.resharedUpdate.actor))

\* lines 437-462: post_type, orig_content and the attribution of one record
Classify(post, p) ==
  IF post.actor.urn # p.member_urn
  THEN [post_type |-> "repost", orig_content |-> Some(""),
        attribution |-> Attribution(post.actor)]
  ELSE IF TruthyDict(post, "resharedUpdate")
  THEN [post_type |-> "reshare",
        orig_content |-> CommentaryText(post.resharedUpdate),
        attribution |-> Attribution(post.resharedUpdate.actor)]
  ELSE [post_type |-> "post", orig_content |-> Some(""),
        attribution |-> NoAttribution]

\* lines 464-467: the social counters of one record raise
SocialRaises(post) ==
  \/ ~Has(post, "socialDetail")
  \/ ~Has(post.socialDetail, "totalSocialActivityCounts")
  \/ LET c == post.socialDetail.totalSocialActivityCounts
     IN  \/ ~Has(c, "numComments")
         \/ ~Has(c, "numShares")
         \/ ~Has(c, "reactionTypeCounts")
         \/ \E i \in 1..Len(c.reactionTypeCounts) :
              ~Has(c.reactionTypeCounts[i], "count")
              \/ ~Has(c.reactionTypeCounts[i], "reactionType")

PostRaises(post, p) == ClassifyRaises(post, p) \/ SocialRaises(post)

RECURSIVE reaction_str(_)
reaction_str(reactions) ==
  IF reactions = <<>> THEN ""
  ELSE ToString(reactions[1].count) \o " (" \o reactions[1].reactionType \o ")"
       \o (IF Len(reactions) > 1 THEN ", " \o reaction_str(Tail(reactions)) ELSE "")

\* lines 474-496: the text block of one record that does not raise
PostBlock(post, p) ==
  LET c    == Classify(post, p)
      a    == c.attribution
      cnt  == post.socialDetail.totalSocialActivityCounts
      post_content == CommentaryText(post)
      attribution_prefix == IF TruthyOpt(a.orig_company_name) THEN "COMPANY" ELSE "AUTHOR"
      who  == IF TruthyOpt(a.orig_author_name)
              THEN a.orig_author_name.val ELSE StrOpt(a.orig_company_name)
      headline == IF TruthyOpt(a.orig_author_headline)
                  THEN "- HEADLINE: " \o a.orig_author_headline.val \o "\n" ELSE ""
  IN  (IF c.post_type = "post" THEN "[Posted]\n" ELSE "")
      \o (IF c.post_type = "reshare"
          THEN "[Reshared a post]\n" \o "RESHARED FROM:\n- " \o attribution_prefix
               \o ": " \o who \o "\n" \o headline
          ELSE "")
      \o (IF c.post_type = "repost"
          THEN "[Reposted a post]\n" \o "REPOSTED FROM:\n- " \o attribution_prefix
               \o ": " \o who \o "\n" \o headline
          ELSE "")
      \o "REACTIONS: " \o reaction_str(cnt.reactionTypeCounts) \o "\n"
      \o "COMMENTS: " \o ToString(cnt.numComments) \o "\n"
      \o "SHARES: " \o ToString(cnt.numShares) \o "\n"
      \o (IF c.post_type = "reshare" /\ TruthyOpt(c.orig_content)
          THEN "ORIGINAL CONTENT:\n\"\"\"\n" \o c.orig_content.val \o "\n\"\"\"\n"
          ELSE "")
      \o (IF TruthyOpt(post_content)
          THEN (IF c.post_type = "post" THEN "CONTENT:"
                ELSE IF c.post_type = "repost" THEN "ORIGINAL CONTENT:"
                ELSE "RESHARE COMMENTARY:")
               \o "\n\"\"\"\n" \o post_content.val \o "\n\"\"\"\n"
          ELSE "")
      \o "\n"

RECURSIVE PostBlocks(_, _)
PostBlocks(list, p) ==
  IF list = <<>> THEN "" ELSE PostBlock(list[1], p) \o PostBlocks(Tail(list), p)

PostsFailed == "# POSTS\nFailed to process posts data\n"

\* posts without the "if raw_posts_data" test of line 427: iterating over
\* None raises, which the blanket handler turns into the placeholder
posts_unguarded(raw_posts_data, p) ==
  IF raw_posts_data = None THEN PostsFailed
  ELSE IF \E i \in 1..Len(raw_posts_data.val) : PostRaises(raw_posts_data.val[i], p)
  THEN PostsFailed
  ELSE DropLast("# POSTS\n" \o PostBlocks(raw_posts_data.val, p), 2)

\* lines 425-500; raw_posts_data is None or Some(non-empty list)
posts(raw_posts_data, p) ==
  IF raw_posts_data = None \/ raw_posts_data.val = <<>> THEN ""
  ELSE IF \E i \in 1..Len(raw_posts_data.val) : PostRaises(raw_posts_data.val[i], p)
  THEN PostsFailed
  ELSE DropLast("# POSTS\n" \o PostBlocks(raw_posts_data.val, p), 2)

\* the document when the handler of 498-500 sits inside the loop, around
\* one record: a record that raises is skipped
ProfileResponseSkippingBadPosts(raw_profile_data, raw_posts_data) ==
  LET kept == IF raw_posts_data = None THEN <<>>
              ELSE SelectSeq(raw_posts_data.val,
                             LAMBDA x : ~PostRaises(x, raw_profile_data))
  IN  [raw |-> [profile |-> raw_profile_data, posts |-> raw_posts_data],
       full_name |-> full_name(raw_profile_data),
       summary |-> summary(raw_profile_data),
       experience |-> "", education |-> "", projects |-> "", honors |-> "",
       skills |-> skills(raw_profile_data),
       languages |-> languages(raw_profile_data),
       certifications |-> "", publications |-> "", volunteer |-> "",
       posts |-> IF kept = <<>> THEN ""
                 ELSE DropLast("# POSTS\n" \o PostBlocks(kept, raw_profile_data), 2)]

\* lines 240-502 without the raising paths: the ProfileResponse
ProfileResponse(raw_profile_data, raw_posts_data) ==
  [raw |-> [profile |-> raw_profile_data, posts |-> raw_posts_data],
   full_name |-> full_name(raw_profile_data),
   summary |-> summary(raw_profile_data),
   experience |-> "", education |-> "", projects |-> "", honors |-> "",
   skills |-> skills(raw_profile_data),
   languages |-> languages(raw_profile_data),
   certifications |-> "", publications |-> "", volunteer |-> "",
   posts |-> posts(raw_posts_data, raw_profile_data)]

\* ------------------------------------------------------------------------
\* Upstream collaborator (linkedin_api): what get_profile / get_profile_posts
\* of the third-party client may answer
\* ------------------------------------------------------------------------
MemberUrn == "urn:li:member:1"

OtherUrn == "urn:li:member:2"

Counts == [totalSocialActivityCounts |->
             [numComments |-> 1, numShares |-> 0,
              reactionTypeCounts |-> <<[count |-> 2, reactionType |-> "LIKE"]>>]]

\* an original post of the subject
OwnPost ==
  [actor |-> [urn |-> MemberUrn], socialDetail |-> Counts,
   commentary |-> [text |-> [text |-> "hello"]]]

\* an activity record without "socialDetail"
NoSocialPost ==
  [actor |-> [urn |-> MemberUrn], commentary |-> [text |-> [text |-> "hello"]]]

\* an activity record without "actor"
NoActorPost ==
  [socialDetail |-> Counts, commentary |-> [text |-> [text |-> "hello"]]]

\* a repost whose actor image names a person
RepostPerson ==
  [actor |-> [urn |-> OtherUrn,
              image |-> [attributes |->
                <<[miniProfile |-> [firstName |-> "Bo", lastName |-> "Li",
                                    occupation |-> "CTO"]]>>]],
   socialDetail |-> Counts, commentary |-> [text |-> [text |-> "hello"]]]

\* a reshare of a company's post, with commentary
ReshareCompany ==
  [actor |-> [urn |-> MemberUrn], socialDetail |-> Counts,
   commentary |-> [text |-> [text |-> "hello"]],
   resharedUpdate |->
     [actor |-> [urn |-> OtherUrn,
                 image |-> [attributes |-> <<[miniCompany |-> [name |-> "Acme"]]>>]],
      commentary |-> [text |-> [text |-> "Great read"]]]]

\* a repost whose first image attribute names neither a person nor a company
RepostUnknown ==
  [actor |-> [urn |-> OtherUrn,
              image |-> [attributes |-> <<[entityUrn |-> "urn:li:x"]>>]],
   socialDetail |-> Counts, commentary |-> [text |-> [text |-> "hello"]]]

\* a repost whose actor has no image
RepostNoImage ==
  [actor |-> [urn |-> OtherUrn],
   socialDetail |-> Counts, commentary |-> [text |-> [text |-> "hello"]]]

\* a repost whose actor has an empty image attribute list
RepostEmptyAttributes ==
  [actor |-> [urn |-> OtherUrn, image |-> [attributes |-> <<>>]],
   socialDetail |-> Counts, commentary |-> [text |-> [text |-> "hello"]]]

\* a reshare whose original actor has no image
ReshareNoImage ==
  [actor |-> [urn |-> MemberUrn], socialDetail |-> Counts,
   resharedUpdate |-> [actor |-> [urn |-> OtherUrn]]]

GoodProfile ==
  [firstName |-> "Ada", lastName |-> "Byron", member_urn |-> MemberUrn,
   headline |-> "Engineer", geoCountryName |-> "UK",
   skills |-> <<[name |-> "math"], [name |-> "code"]>>]

NoFirstNameProfile == [lastName |-> "Byron", member_urn |-> MemberUrn]

NoLastNameProfile == [firstName |-> "Ada", member_urn |-> MemberUrn]

\* payloads answered to concurrent calls
Profiles == {GoodProfile, NoLastNameProfile}

PostLists == {<<OwnPost>>}

\* kind "raise": the client raises; "empty": it returns a falsy value
\* ({} or []), written None; "data": it returns the payload
ProfileReplies ==
  {[kind |-> "raise", data |-> None], [kind |-> "empty", data |-> None]}
  \cup {[kind |-> "data", data |-> p] : p \in Profiles}

\* the posts fetch of concurrent calls succeeds; a failing one is among
\* AnyPostsReplies
PostsReplies == {[kind |-> "data", data |-> Some(l)] : l \in PostLists}

\* payloads answered to a call made alone: every shape of profile and of
\* activity list the transform tells apart
AnyProfiles == {GoodProfile, NoFirstNameProfile, NoLastNameProfile}

AnyPostLists ==
  {<<OwnPost>>, <<OwnPost, NoSocialPost>>, <<NoActorPost, OwnPost>>,
   <<RepostPerson>>, <<OwnPost, ReshareCompany>>, <<RepostUnknown>>,
   <<RepostNoImage>>, <<RepostEmptyAttributes, OwnPost>>, <<ReshareNoImage>>}

AnyProfileReplies ==
  {[kind |-> "raise", data |-> None], [kind |-> "empty", data |-> None]}
  \cup {[kind |-> "data", data |-> p] : p \in AnyProfiles}

AnyPostsReplies ==
  {[kind |-> "raise", data |-> None], [kind |-> "empty", data |-> None]}
  \cup {[kind |-> "data", data |-> Some(l)] : l \in AnyPostLists}

\* ------------------------------------------------------------------------
\* State
\* ------------------------------------------------------------------------
VARIABLES
  CACHE_ENABLED,            \* config["cache"]["enabled"]
  CACHE_TTL_MINUTES,        \* config["cache"]["ttl_minutes"]
  DELAY_ON,                 \* config["anti_rate_limiting"]["delay"]
  NOISE_ON,                 \* config["anti_rate_limiting"]["noise"]
  MIN_DELAY,                \* config["anti_rate_limiting"]["min_delay"], seconds
  MAX_DELAY,                \* config["anti_rate_limiting"]["max_delay"], seconds
  linkedin_agent,           \* main.py: linkedin_agent is not None
  initialization_error,     \* main.py: None or Some(error_msg)
  lock,                     \* self._lock: [locked, waiters] of asyncio.Lock
  waiting_requests_count,   \* self._waiting_requests_count
  cache,                    \* self._cache: profile id -> CacheEntry
  now,                      \* datetime.now(), in minutes
  running,                  \* the get_ingest task the event loop is running, 0 if none
  pc,                       \* where each get_ingest call is
  public_id,                \* argument of each call in progress
  raw_profile_data,         \* local of _get_ingest
  raw_posts_data,           \* local of _get_ingest
  upstream,                 \* per call in progress, the upstream calls it made
  last                      \* the step taken last and what it returned or raised

vars == <<CACHE_ENABLED, CACHE_TTL_MINUTES, DELAY_ON, NOISE_ON, MIN_DELAY,
          MAX_DELAY, linkedin_agent, initialization_error, lock,
          waiting_requests_count, cache, now, running, pc, public_id,
          raw_profile_data, raw_posts_data, upstream, last>>

\* what is set at start-up and never written again
config == <<CACHE_ENABLED, CACHE_TTL_MINUTES, DELAY_ON, NOISE_ON, MIN_DELAY,
           MAX_DELAY, linkedin_agent, initialization_error>>

\* a step of call r (for identifier id) that does not end the call
Step(op, r, id) ==
  [op |-> op, r |-> r, id |-> id, status |-> "pending", doc |-> None, calls |-> <<>>]

\* the step that ends call r: status is "ok" or the exception raised, doc
\* the ProfileResponse returned, calls the upstream calls the call made
Return(op, r, id, status, doc, calls) ==
  [op |-> op, r |-> r, id |-> id, status |-> status, doc |-> doc, calls |-> calls]

\* the step that ends call r with an exception: status is its class and
\* message its str()
Raise(op, r, id, exc, message, calls) ==
  [op |-> op, r |-> r, id |-> id, status |-> exc, doc |-> None,
   message |-> message, calls |-> calls]

\* the delays of the fallback configuration (linkedin.py 100-101)
DEFAULT_MIN_DELAY == 5

DEFAULT_MAX_DELAY == 15

\* __init__ (linkedin.py 85-110) followed by no call yet; the lengths of
\* the delays are read by get_queue_status only and are the default ones
Init ==
  /\ CACHE_ENABLED \in BOOLEAN
  /\ CACHE_TTL_MINUTES \in 1..MaxTtl
  /\ DELAY_ON \in BOOLEAN
  /\ NOISE_ON \in BOOLEAN
  /\ MIN_DELAY = DEFAULT_MIN_DELAY
  /\ MAX_DELAY = DEFAULT_MAX_DELAY
  /\ linkedin_agent = TRUE
  /\ initialization_error = None
  /\ lock = [locked |-> FALSE, waiters |-> <<>>]
  /\ waiting_requests_count = 0
  /\ cache = <<>>
  /\ now = 0
  /\ running = 0
  /\ pc = [r \in Reqs |-> "idle"]
  /\ public_id = [r \in Reqs |-> 0]
  /\ raw_profile_data = [r \in Reqs |-> None]
  /\ raw_posts_data = [r \in Reqs |-> None]
  /\ upstream = [r \in Reqs |-> <<>>]
  /\ last = Step("init", 0, 0)

\* ------------------------------------------------------------------------
\* ProfileCache (linkedin.py 129-147, 504-511)
\* ------------------------------------------------------------------------
CacheEntry(data, ttl_minutes, t) ==
  [data |-> data, created_at |-> t, expires_at |-> t + ttl_minutes]

\* is_expired with >= for >
is_expired_at_deadline(entry, t) == t >= entry.expires_at

is_expired(entry, t) == t > entry.expires_at

\* _get_from_cache without the del of line 140
get_from_cache_keeping_stale(c, id, t) ==
  IF id \in DOMAIN c /\ ~is_expired(c[id], t)
  THEN [ret |-> c[id].data, cache |-> c]
  ELSE [ret |-> None, cache |-> c]

\* returns the value returned and the cache left behind
get_from_cache(c, id, t) ==
  IF id \in DOMAIN c
  THEN IF ~is_expired(c[id], t)
       THEN [ret |-> c[id].data, cache |-> c]
       ELSE [ret |-> None, cache |-> [k \in DOMAIN c \ {id} |-> c[k]]]
  ELSE [ret |-> None, cache |-> c]

add_to_cache(c, id, data, ttl_minutes, t) ==
  [k \in DOMAIN c \cup {id} |->
     IF k = id THEN CacheEntry(data, ttl_minutes, t) ELSE c[k]]

\* ------------------------------------------------------------------------
\* asyncio.Lock as used by "async with self._lock" (linkedin.py 105, 203)
\* ------------------------------------------------------------------------

\* acquire() that looks at the waiters only
LockFreeIfNobodyWaits(l) == l.waiters = <<>>

\* acquire() takes the lock at once iff it is free and nobody waits
LockFree(l) == ~l.locked /\ l.waiters = <<>>

\* release(): unlock and wake the first waiter (it stays in the queue
\* until it runs)
Release(l) == [l EXCEPT !.locked = FALSE]

\* first statements of _get_ingest (215-218): sleep when DELAY_ON
EnterPipeline(r) ==
  /\ pc' = [pc EXCEPT ![r] = IF DELAY_ON THEN "delay" ELSE "get_profile"]
  /\ running' = IF DELAY_ON THEN 0 ELSE r

\* ------------------------------------------------------------------------
\* get_ingest (linkedin.py 192-212)
\* ------------------------------------------------------------------------

\* the counter incremented before the cache check instead of after it
ReturnCachedCounted(r, id, cached_data) ==
  /\ pc' = [pc EXCEPT ![r] = "done"]
  /\ last' = Return("hit", r, id, "ok", cached_data, <<>>)
  /\ waiting_requests_count' = waiting_requests_count + 1
  /\ UNCHANGED <<lock, running, public_id>>

\* lines 199-200: the cached document is returned
ReturnCached(r, id, cached_data) ==
  /\ pc' = [pc EXCEPT ![r] = "done"]
  /\ last' = Return("hit", r, id, "ok", cached_data, <<>>)
  /\ UNCHANGED <<lock, waiting_requests_count, running, public_id>>

\* a lock whose waiters are woken last come, first served
EnqueueAtFront(r, id) ==
  /\ waiting_requests_count' = waiting_requests_count + 1
  /\ public_id' = [public_id EXCEPT ![r] = id]
  /\ IF LockFree(lock)
     THEN /\ lock' = [lock EXCEPT !.locked = TRUE]
          /\ EnterPipeline(r)
     ELSE /\ lock' = [lock EXCEPT !.waiters = <<r>> \o @]
          /\ pc' = [pc EXCEPT ![r] = "queued"]
          /\ UNCHANGED running

\* lines 202-203: the counter goes up, then the lock is taken or waited for
Enqueue(r, id) ==
  /\ waiting_requests_count' = waiting_requests_count + 1
  /\ public_id' = [public_id EXCEPT ![r] = id]
  /\ IF LockFree(lock)
     THEN /\ lock' = [lock EXCEPT !.locked = TRUE]
          /\ EnterPipeline(r)
     ELSE /\ lock' = [lock EXCEPT !.waiters = Append(@, r)]
          /\ pc' = [pc EXCEPT ![r] = "queued"]
          /\ UNCHANGED running

\* the call up to its first suspension: cache check, counter, acquire.
\* Calls are interchangeable, so call r starts after calls 1..r-1 have.
Call(r, id) ==
  /\ running = 0
  /\ pc[r] = "idle"
  /\ \A q \in 1..(r - 1) : pc[q] # "idle"
  /\ LET look == IF CACHE_ENABLED THEN get_from_cache(cache, id, now)
                 ELSE [ret |-> None, cache |-> cache]
     IN  /\ cache' = look.cache
         /\ IF look.ret # None
            THEN ReturnCached(r, id, look.ret)
            ELSE /\ Enqueue(r, id)
                 /\ last' = Step(IF look.cache # cache THEN "evict" ELSE "miss", r, id)
  /\ UNCHANGED <<config, now, raw_profile_data, raw_posts_data, upstream>>

\* the cache looked up again once the lock is taken: a document stored
\* meanwhile is returned without a fetch
AcquireRecheckingCache(r) ==
  /\ running = 0
  /\ pc[r] = "queued"
  /\ ~lock.locked
  /\ lock.waiters # <<>> /\ Head(lock.waiters) = r
  /\ LET look == IF CACHE_ENABLED THEN get_from_cache(cache, public_id[r], now)
                 ELSE [ret |-> None, cache |-> cache]
     IN  /\ cache' = look.cache
         /\ IF look.ret # None
            THEN /\ lock' = [locked |-> FALSE, waiters |-> Tail(lock.waiters)]
                 /\ waiting_requests_count' = waiting_requests_count - 1
                 /\ pc' = [pc EXCEPT ![r] = "done"]
                 /\ running' = 0
                 /\ public_id' = [public_id EXCEPT ![r] = 0]
                 /\ last' = Return("hit", r, public_id[r], "ok", look.ret, <<>>)
            ELSE /\ lock' = [locked |-> TRUE, waiters |-> Tail(lock.waiters)]
                 /\ EnterPipeline(r)
                 /\ last' = Step("acquire", r, public_id[r])
                 /\ UNCHANGED <<waiting_requests_count, public_id>>
  /\ UNCHANGED <<config, now, raw_profile_data, raw_posts_data, upstream>>

\* the counter counting the waiting calls only: it goes down when the
\* lock is taken
AcquireCountingDown(r) ==
  /\ running = 0
  /\ pc[r] = "queued"
  /\ ~lock.locked
  /\ lock.waiters # <<>> /\ Head(lock.waiters) = r
  /\ lock' = [locked |-> TRUE, waiters |-> Tail(lock.waiters)]
  /\ EnterPipeline(r)
  /\ last' = Step("acquire", r, public_id[r])
  /\ waiting_requests_count' = waiting_requests_count - 1
  /\ UNCHANGED <<config, cache, now, public_id,
                 raw_profile_data, raw_posts_data, upstream>>

\* the first waiter, woken by release(), takes the lock (line 203)
Acquire(r) ==
  /\ running = 0
  /\ pc[r] = "queued"
  /\ ~lock.locked
  /\ lock.waiters # <<>> /\ Head(lock.waiters) = r
  /\ lock' = [locked |-> TRUE, waiters |-> Tail(lock.waiters)]
  /\ EnterPipeline(r)
  /\ last' = Step("acquire", r, public_id[r])
  /\ UNCHANGED <<config, waiting_requests_count, cache, now, public_id,
                 raw_profile_data, raw_posts_data, upstream>>

\* the way out of "async with self._lock" and of the call: the lock is
\* released and the locals of the call are gone
Leave(r) ==
  /\ lock' = Release(lock)
  /\ pc' = [pc EXCEPT ![r] = "done"]
  /\ running' = 0
  /\ public_id' = [public_id EXCEPT ![r] = 0]
  /\ raw_profile_data' = [raw_profile_data EXCEPT ![r] = None]
  /\ raw_posts_data' = [raw_posts_data EXCEPT ![r] = None]
  /\ upstream' = [upstream EXCEPT ![r] = <<>>]

\* the except branch without line 211
FailKeepingCount(r, op, exc, message, calls) ==
  /\ UNCHANGED waiting_requests_count
  /\ last' = Raise(op, r, public_id[r], exc, message, calls)
  /\ UNCHANGED cache
  /\ Leave(r)

\* the except branch of get_ingest (210-212)
Fail(r, op, exc, message, calls) ==
  /\ waiting_requests_count' = waiting_requests_count - 1
  /\ last' = Raise(op, r, public_id[r], exc, message, calls)
  /\ UNCHANGED cache
  /\ Leave(r)

\* the success path without line 208
SucceedKeepingCount(r, op, profile_response, calls) ==
  /\ cache' = IF CACHE_ENABLED
              THEN add_to_cache(cache, public_id[r], profile_response,
                                CACHE_TTL_MINUTES, now)
              ELSE cache
  /\ UNCHANGED waiting_requests_count
  /\ last' = Return(op, r, public_id[r], "ok", profile_response, calls)
  /\ Leave(r)

\* lines 206-209: store, count down, return
Succeed(r, op, profile_response, calls) ==
  /\ cache' = IF CACHE_ENABLED
              THEN add_to_cache(cache, public_id[r], profile_response,
                                CACHE_TTL_MINUTES, now)
              ELSE cache
  /\ waiting_requests_count' = waiting_requests_count - 1
  /\ last' = Return(op, r, public_id[r], "ok", profile_response, calls)
  /\ Leave(r)

\* ------------------------------------------------------------------------
\* _get_ingest (linkedin.py 214-502), one action per stretch of code that
\* runs without suspending
\* ------------------------------------------------------------------------

\* _random_delay of line 218 is over
DelayDone(r) ==
  /\ running = 0
  /\ pc[r] = "delay"
  /\ pc' = [pc EXCEPT ![r] = "get_profile"]
  /\ running' = r
  /\ last' = Step("delay", r, public_id[r])
  /\ UNCHANGED <<config, lock, waiting_requests_count, cache, now, public_id,
                 raw_profile_data, raw_posts_data, upstream>>

\* get_profile / get_profile_posts without the "if data" test
FetchRaisesOnlyOnException(reply) == reply.kind = "raise"

\* get_profile / get_profile_posts (174-190) raise unless the client
\* returned truthy data
FetchRaises(reply) == reply.kind # "data"

\* get_profile inside the try of 219-224
GetProfile(r, reply) ==
  /\ running = r
  /\ pc[r] = "get_profile"
  /\ IF FetchRaises(reply)
     THEN Fail(r, "get_profile", "FetchException", "profile",
               Append(upstream[r], "profile_failed"))
     ELSE /\ raw_profile_data' = [raw_profile_data EXCEPT ![r] = reply.data]
          /\ upstream' = [upstream EXCEPT ![r] = Append(@, "profile")]
          /\ pc' = [pc EXCEPT ![r] = "noise1"]
          /\ last' = Step("get_profile", r, public_id[r])
          /\ UNCHANGED <<lock, waiting_requests_count, running, raw_posts_data,
                         public_id, cache>>
  /\ UNCHANGED <<config, now>>

AfterNoise(r) == IF pc[r] \in {"noise1", "noise1_sleep"} THEN "get_posts" ELSE "format"

\* _make_noise (154-166) as called at 226-227 and 237-238: trigger is the
\* outcome of random.random() < NOISE_PROBABILITY
MakeNoise(r, trigger) ==
  /\ running = r
  /\ pc[r] \in {"noise1", "noise2"}
  /\ IF NOISE_ON /\ trigger
     THEN /\ pc' = [pc EXCEPT ![r] = IF pc[r] = "noise1" THEN "noise1_sleep"
                                       ELSE "noise2_sleep"]
          /\ running' = 0
     ELSE /\ pc' = [pc EXCEPT ![r] = AfterNoise(r)]
          /\ UNCHANGED running
  /\ last' = Step("make_noise", r, public_id[r])
  /\ UNCHANGED <<config, lock, waiting_requests_count, cache, now, public_id,
                 raw_profile_data, raw_posts_data, upstream>>

\* the decoy call without the try/except of 167-172: its exception ends
\* the call
NoiseCallPropagating(r, raises) ==
  /\ running = 0
  /\ pc[r] \in {"noise1_sleep", "noise2_sleep"}
  /\ IF raises
     THEN Fail(r, "noise_call_failed", "Exception", "noise",
               Append(upstream[r], "noise"))
     ELSE /\ upstream' = [upstream EXCEPT ![r] = Append(@, "noise")]
          /\ pc' = [pc EXCEPT ![r] = AfterNoise(r)]
          /\ running' = r
          /\ last' = Step("noise_call", r, public_id[r])
          /\ UNCHANGED <<lock, waiting_requests_count, cache, public_id,
                         raw_profile_data, raw_posts_data>>
  /\ UNCHANGED <<config, now>>

\* the decoy call after the delay (167-172); its exception is swallowed
NoiseCall(r, raises) ==
  /\ running = 0
  /\ pc[r] \in {"noise1_sleep", "noise2_sleep"}
  /\ upstream' = [upstream EXCEPT ![r] = Append(@, "noise")]
  /\ pc' = [pc EXCEPT ![r] = AfterNoise(r)]
  /\ running' = r
  /\ last' = Step(IF raises THEN "noise_call_failed" ELSE "noise_call", r, public_id[r])
  /\ UNCHANGED <<config, lock, waiting_requests_count, cache, now, public_id,
                 raw_profile_data, raw_posts_data>>

\* get_profile_posts inside the try of 229-235
GetPosts(r, reply) ==
  /\ running = r
  /\ pc[r] = "get_posts"
  /\ upstream' = [upstream EXCEPT ![r] =
                    Append(@, IF FetchRaises(reply) THEN "posts_failed" ELSE "posts")]
  /\ raw_posts_data' = [raw_posts_data EXCEPT ![r] =
                          IF FetchRaises(reply) THEN None ELSE reply.data]
  /\ pc' = [pc EXCEPT ![r] = "noise2"]
  /\ last' = Step("get_posts", r, public_id[r])
  /\ UNCHANGED <<config, lock, waiting_requests_count, cache, now, running,
                 public_id, raw_profile_data>>

\* the name parts read with .get(key, "") instead of [key]
transform_defaulting_names(profile, posts_data) ==
  LET named == [k \in DOMAIN profile \cup {"firstName", "lastName"} |->
                  IF k \in DOMAIN profile THEN profile[k] ELSE ""]
  IN  IF ProfileRaises(named)
      THEN [status |-> "ParseException", doc |-> None,
            message |-> ParseExceptionStr(named)]
      ELSE [status |-> "ok", doc |-> ProfileResponse(named, posts_data)]

\* lines 240-502: the document, or the ParseException of 420-422
transform(profile, posts_data) ==
  IF ProfileRaises(profile)
  THEN [status |-> "ParseException", doc |-> None,
        message |-> ParseExceptionStr(profile)]
  ELSE [status |-> "ok", doc |-> ProfileResponse(profile, posts_data)]

\* lines 240-502, then 206-212 of get_ingest
Format(r) ==
  /\ running = r
  /\ pc[r] = "format"
  /\ LET t == transform(raw_profile_data[r], raw_posts_data[r])
     IN  IF t.status = "ok"
         THEN Succeed(r, "format", t.doc, upstream[r])
         ELSE Fail(r, "format", t.status, t.message, upstream[r])
  /\ UNCHANGED <<config, now>>

\* time passes
Tick ==
  /\ now < MaxTime
  /\ now' = now + 1
  /\ last' = Step("tick", 0, 0)
  /\ UNCHANGED <<config, lock, waiting_requests_count, cache, running, pc,
                 public_id, raw_profile_data, raw_posts_data, upstream>>

Next ==
  \/ \E r \in Reqs, id \in Ids : Call(r, id)
  \/ \E r \in Reqs : Acquire(r)
  \/ \E r \in Reqs : DelayDone(r)
  \/ \E r \in Reqs, reply \in ProfileReplies : GetProfile(r, reply)
  \/ \E r \in Reqs, trigger \in BOOLEAN : MakeNoise(r, trigger)
  \/ \E r \in Reqs, raises \in BOOLEAN : NoiseCall(r, raises)
  \/ \E r \in Reqs, reply \in PostsReplies : GetPosts(r, reply)
  \/ \E r \in Reqs : Format(r)
  \/ Tick

Spec == Init /\ [][Next]_vars

\* one get_ingest call made alone, answered with any payload
NextOneCall ==
  \/ \E id \in Ids : Call(1, id)
  \/ DelayDone(1)
  \/ \E reply \in AnyProfileReplies : GetProfile(1, reply)
  \/ \E trigger \in BOOLEAN : MakeNoise(1, trigger)
  \/ \E raises \in BOOLEAN : NoiseCall(1, raises)
  \/ \E reply \in AnyPostsReplies : GetPosts(1, reply)
  \/ Format(1)
  \/ Tick

SpecOneCall == Init /\ [][NextOneCall]_vars

\* every call has run its first stretch (up to its first suspension)
AllStarted == \A r \in Reqs : pc[r] # "idle"

\* MaxReqs get_ingest calls started together (asyncio.gather), call r for
\* identifier r: the event loop runs every new task once, in order, before
\* it resumes a task that sleeps, and no time passes meanwhile
NextGather ==
  \/ \E r \in Reqs : Call(r, r)
  \/ \E r \in Reqs : Acquire(r)
  \/ \E r \in Reqs : AllStarted /\ DelayDone(r)
  \/ \E r \in Reqs, reply \in ProfileReplies : GetProfile(r, reply)
  \/ \E r \in Reqs, trigger \in BOOLEAN : MakeNoise(r, trigger)
  \/ \E r \in Reqs, raises \in BOOLEAN : AllStarted /\ NoiseCall(r, raises)
  \/ \E r \in Reqs, reply \in PostsReplies : GetPosts(r, reply)
  \/ \E r \in Reqs : Format(r)
  \/ AllStarted /\ Tick

SpecGather == Init /\ [][NextGather]_vars

\* line 118-122: the allowance for one call, in seconds
singleWaitTime(delay_on, noise_on, max_delay) ==
  4 + (IF delay_on THEN max_delay ELSE 0)
    + (IF noise_on THEN ((2 + max_delay) * 2) \div 2 ELSE 0)

\* lines 124-127: the dict returned; time.time() is the clock in seconds
QueueStatus ==
  [waiting_requests_count |-> waiting_requests_count,
   estimated_completion_timestamp |->
     now * 60 + (waiting_requests_count + 1)
                * singleWaitTime(DELAY_ON, NOISE_ON, MAX_DELAY)]

\* get_queue_status (116-127), called while no get_ingest task runs
get_queue_status ==
  /\ running = 0
  /\ last' = Return("queue_status", 0, 0, "ok", QueueStatus, <<>>)
  /\ UNCHANGED <<config, lock, waiting_requests_count, cache, now, running, pc,
                 public_id, raw_profile_data, raw_posts_data, upstream>>

\* __init__ with delays read from config.yaml, caching switched off
InitQueueStatus ==
  /\ CACHE_ENABLED = FALSE
  /\ CACHE_TTL_MINUTES = 1
  /\ DELAY_ON \in BOOLEAN
  /\ NOISE_ON \in BOOLEAN
  /\ MAX_DELAY \in 0..MaxDelay
  /\ MIN_DELAY \in {0, MAX_DELAY}
  /\ linkedin_agent = TRUE
  /\ initialization_error = None
  /\ lock = [locked |-> FALSE, waiters |-> <<>>]
  /\ waiting_requests_count = 0
  /\ cache = <<>>
  /\ now = 0
  /\ running = 0
  /\ pc = [r \in Reqs |-> "idle"]
  /\ public_id = [r \in Reqs |-> 0]
  /\ raw_profile_data = [r \in Reqs |-> None]
  /\ raw_posts_data = [r \in Reqs |-> None]
  /\ upstream = [r \in Reqs |-> <<>>]
  /\ last = Step("init", 0, 0)

\* calls started together, and the queue endpoint asked at any moment
NextQueueStatus == NextGather \/ get_queue_status

SpecQueueStatus == InitQueueStatus /\ [][NextQueueStatus]_vars

\* ------------------------------------------------------------------------
\* The endpoints (main.py)
\* ------------------------------------------------------------------------

\* a response: the status code and the JSON body
Response(status_code, json) == [status_code |-> status_code, json |-> json]

\* raise HTTPException(status_code, detail) as FastAPI answers it
HTTPException(status_code, detail) == Response(status_code, [detail |-> detail])

\* str(e) of an HTTPException
StrHTTPException(e) == ToString(e.status_code) \o ": " \o e.json.detail

\* the 503 of main.py 76-79, 100-109, 114-124
Unavailable ==
  IF TruthyOpt(initialization_error)
  THEN HTTPException(503, "LinkedIn service unavailable: " \o initialization_error.val)
  ELSE HTTPException(503, "LinkedIn service not initialized")

\* an endpoint answered without touching the agent
Answer(op, id, response) ==
  /\ last' = Return(op, 0, id, "http", response, <<>>)
  /\ UNCHANGED <<config, lock, waiting_requests_count, cache, now, running, pc,
                 public_id, raw_profile_data, raw_posts_data, upstream>>

\* GET / (main.py 45-59)
read_root ==
  /\ running = 0
  /\ Answer("GET /", 0,
            Response(200, [message |-> "LinkedIngest API", status |-> "running",
                           linkedin_agent_initialized |-> linkedin_agent,
                           initialization_error |-> initialization_error]))

\* GET /api/health (main.py 98-110)
health_check ==
  /\ running = 0
  /\ Answer("GET /api/health", 0,
            IF ~linkedin_agent THEN Unavailable ELSE Response(200, [status |-> "ok"]))

\* GET /api/queue (main.py 112-125)
waiting_count ==
  /\ running = 0
  /\ Answer("GET /api/queue", 0,
            IF ~linkedin_agent THEN Unavailable ELSE Response(200, QueueStatus))

\* GET /api/profile/{profile_id} (main.py 73-96): without an agent the
\* HTTPException of 76-79 is raised inside the try block and caught by the
\* "except Exception" of 92-96; with an agent get_ingest is awaited
get_profile_endpoint(id) ==
  /\ running = 0
  /\ IF ~linkedin_agent
     THEN Answer("GET /api/profile", id,
                 HTTPException(500, "Internal server error: "
                                    \o StrHTTPException(Unavailable)))
     ELSE Call(1, id)

\* main.py 81-96: the answer to a get_ingest that returned or raised
ProfileEndpointResponse(result) ==
  IF result.status = "ok" THEN Response(200, result.doc)
  ELSE IF result.status = "FetchException"
  THEN HTTPException(400, "Failed to fetch profile: " \o result.message)
  ELSE HTTPException(400, "Failed to parse profile data: " \o result.message)

\* main.py 27-43: the agent is there, or it is None and the message of the
\* exception is recorded
InitEndpoints ==
  /\ CACHE_ENABLED \in BOOLEAN
  /\ CACHE_TTL_MINUTES \in 1..MaxTtl
  /\ DELAY_ON \in BOOLEAN
  /\ NOISE_ON \in BOOLEAN
  /\ MIN_DELAY = DEFAULT_MIN_DELAY
  /\ MAX_DELAY = DEFAULT_MAX_DELAY
  /\ linkedin_agent \in BOOLEAN
  /\ initialization_error \in
       (IF linkedin_agent THEN {None}
        ELSE {Some("LinkedIn login challenge required: x"),
              Some("Failed to initialize LinkedInAgent: x")})
  /\ lock = [locked |-> FALSE, waiters |-> <<>>]
  /\ waiting_requests_count = 0
  /\ cache = <<>>
  /\ now = 0
  /\ running = 0
  /\ pc = [r \in Reqs |-> "idle"]
  /\ public_id = [r \in Reqs |-> 0]
  /\ raw_profile_data = [r \in Reqs |-> None]
  /\ raw_posts_data = [r \in Reqs |-> None]
  /\ upstream = [r \in Reqs |-> <<>>]
  /\ last = Step("init", 0, 0)

\* requests to the four endpoints, one profile request at most
NextEndpoints ==
  \/ read_root
  \/ health_check
  \/ waiting_count
  \/ \E id \in Ids : get_profile_endpoint(id)
  \/ DelayDone(1)
  \/ \E reply \in ProfileReplies : GetProfile(1, reply)
  \/ \E trigger \in BOOLEAN : MakeNoise(1, trigger)
  \/ \E raises \in BOOLEAN : NoiseCall(1, raises)
  \/ \E reply \in PostsReplies : GetPosts(1, reply)
  \/ Format(1)
  \/ Tick

SpecEndpoints == InitEndpoints /\ [][NextEndpoints]_vars

\* ------------------------------------------------------------------------
\* Shapes of the state
\* ------------------------------------------------------------------------
InPipeline(r) ==
  pc[r] \in {"delay", "get_profile", "noise1", "noise1_sleep", "get_posts",
             "noise2", "noise2_sleep", "format"}

Queued(r) == pc[r] = "queued"

TypeOK ==
  /\ waiting_requests_count \in Int
  /\ now \in 0..MaxTime
  /\ running \in Reqs \cup {0}
  /\ lock.locked \in BOOLEAN
  /\ DOMAIN cache \subseteq Ids \cup Reqs

\* ------------------------------------------------------------------------
\* Claims
\* ------------------------------------------------------------------------
Counted(r) == Queued(r) \/ InPipeline(r)

Range(f) == {f[i] : i \in DOMAIN f}

\* C1: at most one get_ingest call is inside _get_ingest at any time, and
\* while one is, the lock is held.
C1_OneInPipeline ==
  /\ Cardinality({r \in Reqs : InPipeline(r)}) <= 1
  /\ (\E r \in Reqs : InPipeline(r)) => lock.locked

\* one call holds the slot while a call for the same identifier and a call
\* for another identifier wait
C1_Witness ==
  \E r, q1, q2 \in Reqs :
    /\ InPipeline(r) /\ Queued(q1) /\ Queued(q2)
    /\ public_id[q1] = public_id[r]
    /\ public_id[q2] # public_id[r]

\* C2: a call that has incremented the counter decrements it by exactly one
\* in the step in which it returns or raises, whatever the outcome, and the
\* counter is decremented in no other step; whenever no call is queued or
\* in flight the counter is 0.
C2_DecrementOnEveryExit ==
  /\ [][/\ \A r \in Reqs :
             (Counted(r) /\ pc'[r] = "done")
               => waiting_requests_count' = waiting_requests_count - 1
        /\ waiting_requests_count' < waiting_requests_count
             => \E r \in Reqs : Counted(r) /\ pc'[r] = "done"]_vars
  /\ []((\A r \in Reqs : ~Counted(r)) => waiting_requests_count = 0)

\* every call is over, the last one ended by an exception after another
\* ended with a document, and the counter is back to 0
C2_Witness ==
  /\ \A r \in Reqs : pc[r] = "done"
  /\ last.status \in {"FetchException", "ParseException"}
  /\ DOMAIN cache # {}
  /\ waiting_requests_count = 0

\* C3: the counter equals the number of calls that missed the cache and
\* have not returned or raised yet; it is never negative.
C3_CounterIsDepth ==
  /\ waiting_requests_count = Cardinality({r \in Reqs : Counted(r)})
  /\ waiting_requests_count >= 0

\* all calls are queued or in flight at once
C3_Witness ==
  /\ \A r \in Reqs : Counted(r)
  /\ waiting_requests_count = MaxReqs

\* C4: with caching enabled, a call for an identifier whose entry is within
\* its TTL returns the cached document in one step: the counter and the
\* lock (holder and waiters) are untouched and no upstream call is made.
C4_HitSkipsQueue ==
  [][\A r \in Reqs, id \in Ids :
       (/\ CACHE_ENABLED
        /\ id \in DOMAIN cache
        /\ now < cache[id].created_at + CACHE_TTL_MINUTES
        /\ Call(r, id))
       => /\ last' = Return("hit", r, id, "ok", cache[id].data, <<>>)
          /\ pc'[r] = "done"
          /\ waiting_requests_count' = waiting_requests_count
          /\ lock' = lock
          /\ upstream' = upstream
          /\ cache' = cache]_vars

\* a call returned from the cache while another call held the slot
C4_Witness ==
  /\ last.op = "hit"
  /\ lock.locked
  /\ \E q \in Reqs : InPipeline(q)
  /\ waiting_requests_count > 0

\* C5 as stated: get(id) returns the document iff an entry is present
\* and now < created_at + ttl, and absent otherwise.
C5_StrictlyBeforeExpiry ==
  \A id \in Ids :
    get_from_cache(cache, id, now).ret =
      IF id \in DOMAIN cache /\ now < cache[id].created_at + CACHE_TTL_MINUTES
      THEN cache[id].data ELSE None

\* C5 amended: get(id) returns the document iff an entry is present and
\* now <= created_at + ttl (the instant created_at + ttl included), and
\* absent otherwise.
C5_UpToExpiry ==
  \A id \in Ids :
    get_from_cache(cache, id, now).ret =
      IF id \in DOMAIN cache /\ now <= cache[id].created_at + CACHE_TTL_MINUTES
      THEN cache[id].data ELSE None

\* a call was answered from the cache at the instant created_at + ttl
C5_Witness ==
  /\ last.op = "hit"
  /\ last.id \in DOMAIN cache
  /\ now = cache[last.id].created_at + CACHE_TTL_MINUTES
  /\ last.doc = cache[last.id].data

\* C6: (put) a successful ingest with caching enabled stores the document
\* it returns, and a lookup at any time within the TTL finds it; (expiry)
\* a lookup after the TTL has elapsed misses and removes the entry; an
\* identifier without an entry gets one only by a put for it; an entry is
\* removed only by a lookup of its identifier past its expiry.
C6_RoundTrip ==
  [][/\ (last'.op = "format" /\ last'.status = "ok" /\ CACHE_ENABLED)
          => /\ last'.id \in DOMAIN cache'
             /\ cache'[last'.id].data = last'.doc
             /\ \A t \in now..(now + CACHE_TTL_MINUTES - 1) :
                  get_from_cache(cache', last'.id, t).ret = last'.doc
     /\ \A r \in Reqs, id \in Ids :
          (/\ CACHE_ENABLED
           /\ id \in DOMAIN cache
           /\ now > cache[id].created_at + CACHE_TTL_MINUTES
           /\ Call(r, id))
          => /\ last'.op = "evict"
             /\ id \notin DOMAIN cache'
             /\ get_from_cache(cache', id, now).ret = None
     /\ \A id \in Ids :
          (id \notin DOMAIN cache /\ id \in DOMAIN cache')
            => last'.op = "format" /\ last'.status = "ok" /\ last'.id = id
     /\ \A id \in Ids :
          (id \in DOMAIN cache /\ id \notin DOMAIN cache')
            => /\ last'.op = "evict" /\ last'.id = id
               /\ now > cache[id].created_at + CACHE_TTL_MINUTES]_vars

\* a lookup past the TTL has just removed the entry, while the entry of
\* another identifier, also past its TTL, is still in the mapping
C6_Witness ==
  /\ last.op = "evict"
  /\ last.id \notin DOMAIN cache
  /\ \E id \in DOMAIN cache : now > cache[id].expires_at

\* C7: when get_profile raises or returns nothing, the call ends at once
\* with FetchException: no posts fetch, no transform, the cache is left as
\* it was, the lock is released and the first waiter, if any, can take it.
C7_ProfileFetchFatal ==
  [][\A r \in Reqs, reply \in ProfileReplies :
       (reply.kind \in {"raise", "empty"} /\ GetProfile(r, reply))
       => /\ last'.status = "FetchException"
          /\ last'.doc = None
          /\ last'.calls = Append(upstream[r], "profile_failed")
          /\ "posts" \notin Range(last'.calls)
          /\ "posts_failed" \notin Range(last'.calls)
          /\ pc'[r] = "done"
          /\ cache' = cache
          /\ ~lock'.locked
          /\ running' = 0
          /\ lock.waiters # <<>>
               => /\ lock'.waiters = lock.waiters
                  /\ pc'[Head(lock'.waiters)] = "queued"]_vars

\* the profile fetch of the holder failed while another call was waiting
C7_Witness ==
  /\ last.op = "get_profile"
  /\ last.status = "FetchException"
  /\ lock.waiters # <<>>
  /\ ~lock.locked

\* C8: a fetched profile without firstName or without lastName makes the
\* call raise ParseException whatever the posts payload: no document is
\* returned and the cache is left as it was.
C8_MissingNameIsParseError ==
  [][\A r \in Reqs :
       (/\ Format(r)
        /\ (~Has(raw_profile_data[r], "firstName") \/ ~Has(raw_profile_data[r], "lastName")))
       => /\ last'.status = "ParseException"
          /\ last'.doc = None
          /\ cache' = cache]_vars

\* a call whose posts fetch succeeded raised ParseException, with caching
\* enabled
C8_Witness ==
  /\ last.op = "format"
  /\ last.status = "ParseException"
  /\ "posts" \in Range(last.calls)
  /\ CACHE_ENABLED
  /\ last.id \notin DOMAIN cache

\* C9: a posts fetch that raises or returns nothing leaves raw_posts_data
\* null and the call goes on; with a well-formed profile the call then
\* returns a document whose raw posts are null and whose posts section is
\* empty, and stores that document when caching is enabled.
C9_PostsFetchNonFatal ==
  [][/\ \A r \in Reqs, reply \in AnyPostsReplies :
          (reply.kind \in {"raise", "empty"} /\ GetPosts(r, reply))
          => /\ raw_posts_data'[r] = None
             /\ pc'[r] = "noise2"
             /\ last'.status = "pending"
     /\ \A r \in Reqs :
          (/\ Format(r)
           /\ raw_posts_data[r] = None
           /\ Has(raw_profile_data[r], "firstName")
           /\ Has(raw_profile_data[r], "lastName"))
          => /\ last'.status = "ok"
             /\ last'.doc.raw.posts = None
             /\ last'.doc.posts = ""
             /\ last'.doc.full_name # ""
             /\ CACHE_ENABLED => /\ public_id[r] \in DOMAIN cache'
                                 /\ cache'[public_id[r]].data = last'.doc]_vars

\* a call whose posts fetch failed returned a document, now in the cache
C9_Witness ==
  /\ last.op = "format"
  /\ last.status = "ok"
  /\ "posts_failed" \in Range(last.calls)
  /\ last.doc.raw.posts = None
  /\ last.id \in DOMAIN cache
  /\ cache[last.id].data = last.doc

LacksKey(list, k) == \E i \in 1..Len(list) : ~Has(list[i], k)

SectionNames ==
  {"full_name", "summary", "experience", "education", "projects", "honors",
   "skills", "languages", "certifications", "publications", "volunteer"}

\* C10: when a record of a non-empty posts payload lacks "socialDetail" (or
\* "actor"), the call ends as it would with a well-formed payload (no error
\* comes from the posts); the document it returns has the fixed placeholder
\* as its posts section and every other section as with a well-formed
\* payload.
C10_PostsDegrade ==
  [][\A r \in Reqs :
       (/\ Format(r)
        /\ raw_posts_data[r] # None
        /\ (LacksKey(raw_posts_data[r].val, "socialDetail")
            \/ LacksKey(raw_posts_data[r].val, "actor")))
       => \A good \in {l \in AnyPostLists : ~LacksKey(l, "socialDetail") /\ ~LacksKey(l, "actor")} :
            LET ref == transform(raw_profile_data[r], Some(good))
            IN  /\ last'.status = ref.status
                /\ (Has(raw_profile_data[r], "firstName") /\ Has(raw_profile_data[r], "lastName"))
                     => last'.status = "ok"
                /\ last'.status = "ok"
                     => /\ last'.doc.posts = "# POSTS\nFailed to process posts data\n"
                        /\ \A k \in SectionNames : last'.doc[k] = ref.doc[k]
                        /\ last'.doc.raw.profile = ref.doc.raw.profile]_vars

\* a document with the placeholder and populated profile sections was
\* returned for a payload whose second record lacks "socialDetail"
C10_Witness ==
  /\ last.op = "format"
  /\ last.status = "ok"
  /\ last.doc.raw.posts # None
  /\ LacksKey(last.doc.raw.posts.val, "socialDetail")
  /\ last.doc.posts = PostsFailed
  /\ last.doc.skills = "# SKILLS\nmath, code"
  /\ last.doc.summary = "PROFILE OF: Ada Byron\nHEADLINE: Engineer\nLOCATION: UK"

\* the actor whose image decides the attribution of a repost or reshare
AttributedActor(post, p) ==
  IF post.actor.urn # p.member_urn THEN post.actor ELSE post.resharedUpdate.actor

\* a repost or reshare whose attributed actor has no image attribute list,
\* or an empty one
Unresolvable(post, p) ==
  /\ post.actor.urn # p.member_urn
      \/ (TruthyDict(post, "resharedUpdate") /\ Has(post.resharedUpdate, "actor"))
  /\ LET actor == AttributedActor(post, p)
     IN  \/ ~Has(actor, "image")
         \/ ~Has(actor.image, "attributes")
         \/ actor.image.attributes = <<>>

\* C11 as stated: when a call formats a posts payload whose records carry
\* the actor identifier and the counters, every record resolves to one of
\* post, repost, reshare without an error, a repost or reshare whose actor
\* has no image attribute list (or an empty one) gets null author and
\* company attribution, and the posts section is rendered.
C11_ClassificationTotal ==
  [][\A r \in Reqs :
       (/\ Format(r)
        /\ raw_posts_data[r] # None
        /\ ~ProfileRaises(raw_profile_data[r])
        /\ Has(raw_profile_data[r], "member_urn")
        /\ \A i \in 1..Len(raw_posts_data[r].val) :
             LET post == raw_posts_data[r].val[i]
             IN  Has(post, "actor") /\ Has(post.actor, "urn") /\ ~SocialRaises(post))
       => /\ \A i \in 1..Len(raw_posts_data[r].val) :
               LET post == raw_posts_data[r].val[i]
               IN  /\ ~ClassifyRaises(post, raw_profile_data[r])
                   /\ Classify(post, raw_profile_data[r]).post_type
                        \in {"post", "repost", "reshare"}
                   /\ Unresolvable(post, raw_profile_data[r])
                        => Classify(post, raw_profile_data[r]).attribution = NoAttribution
          /\ last'.status = "ok"
          /\ last'.doc.posts # PostsFailed]_vars

\* C12 as stated, for MaxReqs (3) calls started together for distinct
\* identifiers, none cached: the depth is never above MaxReqs and never
\* negative, it is 0 once every call has finished, and it reaches MaxReqs.
\* The counter only grows in the step that starts a call, so it reaches
\* MaxReqs exactly when the step that starts the last call brings it there.
C12_DepthReachesThree ==
  /\ [](waiting_requests_count >= 0 /\ waiting_requests_count <= MaxReqs)
  /\ []((\A r \in Reqs : pc[r] = "done") => waiting_requests_count = 0)
  /\ [][\A id \in Reqs : Call(MaxReqs, id) => waiting_requests_count' = MaxReqs]_vars

\* C13 as stated: the counter never drops from one step to the next while
\* a call stays queued.
C13_NeverDropsWhileQueued ==
  [][\A r \in Reqs :
       (Queued(r) /\ Queued(r)') => waiting_requests_count' >= waiting_requests_count]_vars

\* C13 amended: while a call stays queued the counter drops only in a step
\* in which the call holding the slot returns or raises, then by exactly
\* one, and it never drops below 1.
C13_DropsOnlyWhenHolderLeaves ==
  [][\A r \in Reqs :
       (Queued(r) /\ Queued(r)')
       => /\ waiting_requests_count' < waiting_requests_count
               => /\ waiting_requests_count' = waiting_requests_count - 1
                  /\ \E q \in Reqs : InPipeline(q) /\ pc'[q] = "done"
          /\ waiting_requests_count' >= 1]_vars

\* the holder has just returned a document and left two calls queued, which
\* saw the counter go from 3 to 2
C13_Witness ==
  /\ last.op = "format" /\ last.status = "ok"
  /\ Cardinality({r \in Reqs : Queued(r)}) = 2
  /\ waiting_requests_count = 2

\* C14: calls enter the fetch pipeline in the order in which they
\* incremented the counter (calls start in index order): when a call enters
\* the pipeline no call that started before it is still queued.
C14_ArrivalOrder ==
  [][\A q \in Reqs :
       (~InPipeline(q) /\ InPipeline(q)')
       => \A r \in 1..(q - 1) : ~Queued(r)]_vars

\* a call that had waited took the slot while a call that came after it
\* is still waiting
C14_Witness ==
  /\ last.op = "acquire"
  /\ \E q \in Reqs : q > last.r /\ Queued(q) /\ InPipeline(last.r)

\* the longest time one call can spend in its pacing delay (line 218) and
\* its two decoy delays (line 168), each at most MAX_DELAY
WorstDelay ==
  (IF DELAY_ON THEN MAX_DELAY ELSE 0) + (IF NOISE_ON THEN 2 * MAX_DELAY ELSE 0)

\* C15 as stated: the estimate of get_queue_status at depth d is
\* now + (d+1) x singleWaitTime, and (d+1) x singleWaitTime is at least
\* (d+1) times the longest pacing-plus-noise delay of one call.
C15_EstimateIsUpperBound ==
  last.op = "queue_status"
  => LET d == last.doc.waiting_requests_count
         eta == last.doc.estimated_completion_timestamp - now * 60
     IN  /\ d = waiting_requests_count
         /\ eta = (d + 1) * singleWaitTime(DELAY_ON, NOISE_ON, MAX_DELAY)
         /\ eta >= (d + 1) * WorstDelay

\* C16 as stated: without an agent the profile, health and queue endpoints
\* answer 503 with the recorded initialization error in the detail and leave
\* the agent untouched; the root endpoint answers 200 with or without an
\* agent.
C16_UnavailableIs503 ==
  /\ (~linkedin_agent
      /\ last.op \in {"GET /api/profile", "GET /api/health", "GET /api/queue"})
     => /\ last.doc.status_code = 503
        /\ last.doc.json.detail
             = "LinkedIn service unavailable: " \o initialization_error.val
  /\ ~linkedin_agent
     => /\ \A r \in Reqs : pc[r] = "idle" /\ upstream[r] = <<>>
        /\ waiting_requests_count = 0 /\ ~lock.locked
  /\ last.op = "GET /" => last.doc.status_code = 200

\* the upstream calls of a call that reached the transform: the profile
\* fetch, the posts fetch, and at most one decoy call after each
CallLogs ==
  LET fetch == {"posts", "posts_failed"}
      decoy == IF NOISE_ON THEN {<<>>, <<"noise">>} ELSE {<<>>}
  IN  {<<"profile">> \o n1 \o <<f>> \o n2 : n1 \in decoy, f \in fetch, n2 \in decoy}

\* C17: a decoy call that raises leaves the call where a decoy call that
\* returns leaves it (next step of the pipeline, fetched payloads, counter,
\* lock and cache untouched, nothing raised); a call that made decoy calls
\* and whose profile is well formed returns the document of its fetched
\* payloads; and each noise step makes at most one decoy call.
C17_NoiseFailureHarmless ==
  [][/\ \A r \in Reqs :
          NoiseCall(r, TRUE)
          => /\ pc'[r] = AfterNoise(r)
             /\ last'.status = "pending"
             /\ raw_profile_data' = raw_profile_data
             /\ raw_posts_data' = raw_posts_data
             /\ waiting_requests_count' = waiting_requests_count
             /\ lock' = lock /\ lock.locked
             /\ cache' = cache
             /\ upstream'[r] = Append(upstream[r], "noise")
     /\ \A r \in Reqs :
          (Format(r) /\ ~ProfileRaises(raw_profile_data[r]))
          => /\ last'.status = "ok"
             /\ last'.doc.raw = [profile |-> raw_profile_data[r],
                                 posts |-> raw_posts_data[r]]
             /\ last'.doc.posts = posts(raw_posts_data[r], raw_profile_data[r])
     /\ \A r \in Reqs : Format(r) => upstream[r] \in CallLogs]_vars

\* the second decoy call of a call has just raised, after a first decoy
\* call, and the call is about to transform what it fetched
C17_Witness ==
  /\ last.op = "noise_call_failed"
  /\ pc[last.r] = "format"
  /\ upstream[last.r] = <<"profile", "noise", "posts", "noise">>
  /\ lock.locked

\* C18: a call that missed the cache does not look it up again: when it
\* takes the slot it enters the pipeline and leaves the cache as it is, also
\* when a document for its identifier has been stored meanwhile; it ends
\* only after a profile fetch of its own; and when it returns a document
\* with caching enabled, the entry of its identifier is that document,
\* stamped with the current time, whatever entry there was.
C18_NoSecondCacheCheck ==
  [][/\ \A r \in Reqs :
          Acquire(r)
          => /\ InPipeline(r)'
             /\ cache' = cache
             /\ last'.status = "pending"
             /\ upstream'[r] = <<>>
     /\ \A r \in Reqs :
          (Counted(r) /\ pc'[r] = "done")
          => /\ InPipeline(r)
             /\ last'.calls # <<>>
             /\ Head(last'.calls) \in {"profile", "profile_failed"}
     /\ \A r \in Reqs :
          (Format(r) /\ last'.status = "ok" /\ CACHE_ENABLED)
          => cache' = [id \in DOMAIN cache \cup {public_id[r]} |->
                         IF id = public_id[r]
                         THEN CacheEntry(last'.doc, CACHE_TTL_MINUTES, now)
                         ELSE cache[id]]]_vars

\* a call that had waited took the slot and is about to fetch, although a
\* document for its identifier, stored while it waited, is in the cache and
\* within its TTL
C18_Witness ==
  /\ last.op = "acquire"
  /\ CACHE_ENABLED
  /\ InPipeline(last.r)
  /\ last.id \in DOMAIN cache
  /\ ~is_expired(cache[last.id], now)

====
